---- MODULE Spec2Model ----
(***************************************************************************)
(* A model of ascii-filter (src/src/lib.rs): the streaming filter that     *)
(* reads a byte stream into a fixed working buffer, resolves with a        *)
(* dynamic program which spans of the buffer are valid UTF-8, writes those *)
(* spans through FilterWriter and carries the unconsumed tail over to the  *)
(* next round.                                                             *)
(*                                                                         *)
(* Bytes are the integers 0..255.  Indices i, j, m, taken, taken_limit are *)
(* the code's 0-based indices; a TLA+ sequence is 1-based, so the byte the *)
(* code calls cbuf[i] is cbuf[i + 1] here and the slice cbuf[i..j] is      *)
(* SubSeq(cbuf, i + 1, j).                                                 *)
(***************************************************************************)
EXTENDS Integers, Sequences, FiniteSets, TLC

\* ------------------------------------------------------------------------
\* Bounds of the model.

\* The longest input is the concatenation of MaxTok tokens of Tokens.
MaxTok == 3
\* The buffer sizes (-b) explored are 1..MaxBuf.
MaxBuf == 8
\* In the runs that explore the ASCII subset, the longest input is the
\* concatenation of MaxAsciiTok tokens of AsciiTokens.
MaxAsciiTok == 2

\* ------------------------------------------------------------------------
\* Small helpers.

Min(a, b) == IF a < b THEN a ELSE b

RECURSIVE Flatten(_)
Flatten(ss) == IF ss = <<>> THEN <<>> ELSE Head(ss) \o Flatten(Tail(ss))

\* usize::MAX, the initial value of min_cost_i (lib.rs 78).  The
\* integers of TLC are 32 bits wide, so the largest of them stands for it:
\* a total cost is at most m, far below either value.
UsizeMax == 2147483647

\* ------------------------------------------------------------------------
\* std::str::from_utf8(..).is_ok(): well-formedness of a byte slice
\* (Unicode table 3-7, as the standard library validates it).

IsCont(b) == b >= 128 /\ b <= 191

\* The length of the well-formed character that starts at s[p], or 0 when
\* no well-formed character starts there (bad lead byte, bad or missing
\* continuation byte, overlong form, surrogate, above U+10FFFF).
Utf8CharLen(s, p) ==
    LET n == Len(s)
        b0 == s[p]
        Has(k) == p + k <= n
        C(k) == IsCont(s[p + k])
        In(k, lo, hi) == s[p + k] >= lo /\ s[p + k] <= hi
    IN  IF b0 < 128 THEN 1
        ELSE IF b0 >= 194 /\ b0 <= 223
             THEN IF Has(1) /\ C(1) THEN 2 ELSE 0
        ELSE IF b0 = 224
             THEN IF Has(2) /\ In(1, 160, 191) /\ C(2) THEN 3 ELSE 0
        ELSE IF (b0 >= 225 /\ b0 <= 236) \/ b0 = 238 \/ b0 = 239
             THEN IF Has(2) /\ C(1) /\ C(2) THEN 3 ELSE 0
        ELSE IF b0 = 237
             THEN IF Has(2) /\ In(1, 128, 159) /\ C(2) THEN 3 ELSE 0
        ELSE IF b0 = 240
             THEN IF Has(3) /\ In(1, 144, 191) /\ C(2) /\ C(3) THEN 4 ELSE 0
        ELSE IF b0 >= 241 /\ b0 <= 243
             THEN IF Has(3) /\ C(1) /\ C(2) /\ C(3) THEN 4 ELSE 0
        ELSE IF b0 = 244
             THEN IF Has(3) /\ In(1, 128, 143) /\ C(2) /\ C(3) THEN 4 ELSE 0
        ELSE 0

RECURSIVE ValidFrom(_, _)
ValidFrom(s, p) ==
    IF p > Len(s) THEN TRUE
    ELSE LET l == Utf8CharLen(s, p)
         IN  l > 0 /\ ValidFrom(s, p + l)

from_utf8_is_ok(s) == ValidFrom(s, 1)

\* ------------------------------------------------------------------------
\* FilterWriter::write (lib.rs 21-47).

\* A subset test that lets DEL (127) through as well.
InAsciiSubset_WithDel(c_byte) ==
    (c_byte < 11 /\ c_byte >= 9) \/ (c_byte <= 127 /\ c_byte >= 32)

\* The subset of ASCII that ascii_only lets through (lib.rs 32-33).
InAsciiSubset(c_byte) ==
    (c_byte < 11 /\ c_byte >= 9) \/ (c_byte < 127 /\ c_byte >= 32)

\* c.len_utf8() of the character char_indices decodes at a lead byte.  The
\* slice is valid UTF-8 whenever take_from_buffer writes it, so the width
\* is the one the lead byte announces.
len_utf8(lead) ==
    IF lead < 128 THEN 1 ELSE IF lead < 224 THEN 2 ELSE IF lead < 240 THEN 3 ELSE 4

\* The offsets (1-based, into the slice) of the bytes the ascii_only branch
\* hands to the backend, in the order it hands them over.
RECURSIVE AsciiKept(_, _)
AsciiKept(slice, j) ==
    IF j > Len(slice) THEN <<>>
    ELSE LET c_len == len_utf8(slice[j])
         IN  IF c_len > 1 THEN AsciiKept(slice, j + c_len)
             ELSE IF InAsciiSubset(slice[j])
                  THEN <<j>> \o AsciiKept(slice, j + 1)
                  ELSE AsciiKept(slice, j + 1)

\* The offsets of the bytes of slice that reach the backend.
FilterWrite(ascii, slice) ==
    IF ascii THEN AsciiKept(slice, 1) ELSE [k \in 1..Len(slice) |-> k]

\* ------------------------------------------------------------------------
\* take_from_buffer (lib.rs 66-105).

\* The flattened index of the pair (i, j) in valid_utf8 (lib.rs 82, 97).
VuIndex_ByEnd(m, i, j) == j - 1

VuIndex(m, i, j) == ((m + 1) * i + j) - (((i + 2) * (i + 1)) \div 2)

\* The length of valid_utf8 (lib.rs 76).
VuLen(m) == (m + 1) * m - (((m + 1) * m) \div 2)

\* A test that lets an equal total replace the best pair so far.
Improves_OrEqual(total, min_cost_i) == total <= min_cost_i

\* A test that lets every pair replace the best pair so far.
Improves_Always(total, min_cost_i) == TRUE

\* The test that lets the pair (i, j) replace the best pair so far
\* (lib.rs 86).
Improves(total, min_cost_i) == total < min_cost_i

\* The loops keep their variables in a record st: the loop indices i and j,
\* min_cost_i and the three tables.

\* One iteration of the inner loop, for the pair (st.i, st.j) (lib.rs
\* 80-89).
InnerStep(cbuf, m, st) ==
    LET i == st.i
        j == st.j
        valid_utf8_ij == from_utf8_is_ok(SubSeq(cbuf, i + 1, j))
        cost_ij == IF valid_utf8_ij THEN 0 ELSE j - i
        cost_j == st.cost[j]
        better == Improves(cost_ij + cost_j, st.min_cost_i)
    IN  [i |-> i,
         j |-> j + 1,
         min_cost_i |-> IF better THEN cost_ij + cost_j ELSE st.min_cost_i,
         cost |-> st.cost,
         backtrack |-> IF better THEN [st.backtrack EXCEPT ![i] = j]
                       ELSE st.backtrack,
         valid_utf8 |-> [st.valid_utf8 EXCEPT ![VuIndex(m, i, j)] = valid_utf8_ij]]

\* for j in i + 1..=m (lib.rs 79-90), from st.j on.
RECURSIVE InnerLoop(_, _, _)
InnerLoop(cbuf, m, st) ==
    IF st.j > m THEN st
    ELSE InnerLoop(cbuf, m, InnerStep(cbuf, m, st))

\* One iteration of the outer loop, for st.i (lib.rs 78-91).
OuterStep(cbuf, m, st) ==
    LET r == InnerLoop(cbuf, m, [st EXCEPT !.min_cost_i = UsizeMax,
                                           !.j = st.i + 1])
    IN  [r EXCEPT !.cost[st.i] = r.min_cost_i, !.i = st.i - 1]

\* for i in (0..m).rev() (lib.rs 77-92), from st.i down.
RECURSIVE OuterLoop(_, _, _)
OuterLoop(cbuf, m, st) ==
    IF st.i < 0 THEN st
    ELSE OuterLoop(cbuf, m, OuterStep(cbuf, m, st))

\* The tables after the table-building loop (lib.rs 72-92).
BuildTables(cbuf, m) ==
    OuterLoop(cbuf, m,
              [i |-> m - 1,
               j |-> m,
               min_cost_i |-> UsizeMax,
               cost |-> [k \in 0..m |-> 0],
               backtrack |-> [k \in 0..(m - 1) |-> 0],
               valid_utf8 |-> [k \in 0..(VuLen(m) - 1) |-> FALSE]])

\* A walk that writes every span it follows, valid or not.
SpanIsWritten_Always(valid_utf8_ij) == TRUE

\* Whether the walk writes the span it follows (lib.rs 98).
SpanIsWritten(valid_utf8_ij) == valid_utf8_ij

\* A walk that stops one span early: it starts no span at taken_limit.
WalkGoesOn_BelowLimit(i, taken_limit, m) == i < taken_limit /\ i < m

\* A walk that still starts a span one index past taken_limit.
WalkGoesOn_PastLimit(i, taken_limit, m) == i <= taken_limit + 1 /\ i < m

\* The condition of the forward walk (lib.rs 95).
WalkGoesOn(i, taken_limit, m) == i <= taken_limit /\ i < m

\* One step of the forward walk (lib.rs 96-101); w is the walk's state:
\* its index i and the spans <<i, j>> written so far.
WalkStep(tabs, m, w) ==
    LET i == w.i
        j == tabs.backtrack[i]
        valid_utf8_ij == tabs.valid_utf8[VuIndex(m, i, j)]
    IN  [i |-> j,
         spans |-> IF SpanIsWritten(valid_utf8_ij)
                   THEN Append(w.spans, <<i, j>>) ELSE w.spans]

\* The forward walk (lib.rs 94-104): the final i and the spans written to
\* w, in order.
RECURSIVE Walk(_, _, _, _)
Walk(tabs, m, taken_limit, w) ==
    IF WalkGoesOn(w.i, taken_limit, m)
    THEN Walk(tabs, m, taken_limit, WalkStep(tabs, m, w))
    ELSE [taken |-> w.i, spans |-> w.spans]

take_from_buffer(cbuf, m, taken_limit) ==
    Walk(BuildTables(cbuf, m), m, taken_limit, [i |-> 0, spans |-> <<>>])

\* ------------------------------------------------------------------------
\* The inputs explored: every concatenation of at most MaxTok tokens.  The
\* tokens are single bytes of each class ('A', a byte that is never valid,
\* a continuation byte, the lead byte of a 3-byte character) and whole
\* characters of 3 and 4 bytes, so that every arrangement of valid
\* characters, truncated characters and stray bytes of that many tokens is
\* an input.

Tokens ==
    { <<65>>, <<255>>, <<160>>, <<228>>,
      <<228, 160, 160>>, <<240, 160, 160, 160>> }

TokSeqs(n) == { Flatten(ts) : ts \in [1..n -> Tokens] }

\* Two bytes that belong to no character, then "hi".
InvalidThenHi == <<255, 254, 104, 105>>

Inputs == UNION { TokSeqs(n) : n \in 0..MaxTok } \cup { InvalidThenHi }

BufSizes == 1..MaxBuf

\* ------------------------------------------------------------------------
\* State.

VARIABLES
    input,          \* the bytes the source holds (stdin), a sequence
    rpos,           \* how many of them the source has handed out
    buf_size,       \* -b
    ascii_only,     \* -a
    buf,            \* the working buffer, buf_size bytes (lib.rs 129)
    m,              \* lib.rs 130
    taken_limit,    \* lib.rs 125
    pc,             \* "prime": fill_buf of lib.rs 130 is running;
                    \* "take": at lib.rs 138; "refill": fill_buf of
                    \* lib.rs 140 is running; "done": the loop has ended
    taken,          \* what the last take_from_buffer returned (lib.rs 138)
    lo,             \* the running fill_buf fills buf[lo..] (m - taken)
    in_bytes_total, \* lib.rs 111
    out,            \* the bytes the backend (stdout) has received
    \* History variables; no action reads them to decide what to do.
    tag,            \* tag[k]: the position in input buf[k] was read from
    outTag,         \* outTag[k]: the position in input of out[k]
    passed,         \* the bytes handed to FilterWriter::write so far
    rounds,         \* the number of take_from_buffer calls so far
    cuts,           \* the input positions at which a round stopped taking
    late,           \* the input positions that sat at a buffer index
                    \* >= buf_size / 2 when a completely filled round began
    run,            \* 1, or 2 when the output of run 1 is being filtered
    in1,            \* run 2: the input of run 1
    out1,           \* run 2: the output of run 1
    taken_total,    \* the sum of the results of the calls of this run so far
    partial         \* partial[r]: a read of run r returned fewer bytes
                    \* than were asked for and were there to read

vars == <<input, rpos, buf_size, ascii_only, buf, m, taken_limit, pc, taken, lo,
          in_bytes_total, out, tag, outTag, passed, rounds, cuts, late,
          run, in1, out1, taken_total, partial>>

\* The state of buffer_filter when it is entered with the given source,
\* buffer size and mode (lib.rs 150-155, 129-130).
Start(inp, size, ascii) ==
    /\ input = inp
    /\ rpos = 0
    /\ buf_size = size
    /\ ascii_only = ascii
    /\ buf = [k \in 1..size |-> 0]
    /\ tag = [k \in 1..size |-> 0]
    /\ m = 0
    /\ taken_limit = size \div 2
    /\ pc = IF size = 0 THEN "done" ELSE "prime"
    /\ taken = 0
    /\ lo = 0
    /\ in_bytes_total = 0
    /\ out = <<>>
    /\ outTag = <<>>
    /\ passed = <<>>
    /\ rounds = 0
    /\ cuts = {}
    /\ late = {}
    /\ run = 1
    /\ in1 = <<>>
    /\ out1 = <<>>
    /\ taken_total = 0
    /\ partial = [r \in 1..2 |-> FALSE]

Init ==
    \E inp \in Inputs, size \in BufSizes, ascii \in BOOLEAN :
        Start(inp, size, ascii)

\* ------------------------------------------------------------------------
\* fill_buf (lib.rs 109-121), one r.read call per step.

\* The counts one read of the source may return: 0 at end of stream only,
\* otherwise any count from 1 to what is left and what the slice holds.
ReadCounts(space, avail) ==
    IF avail = 0 THEN {0} ELSE 1..Min(space, avail)

\* fill_buf returning Ok(()) after any read that brought bytes.
range_is_full_AfterOneRead(total, len) == TRUE

\* The loop condition of fill_buf failing (lib.rs 112): the range is full.
range_is_full(total, len) == total >= len

\* A read that returns in_bytes > 0 (lib.rs 113, 117); when that fills the
\* range, fill_buf returns Ok(()) and buffer_filter sets m = buf_size
\* (lib.rs 131, 141) and tests m > 0 (lib.rs 137).
ReadData ==
    /\ pc \in {"prime", "refill"}
    /\ in_bytes_total < buf_size - lo
    /\ \E in_bytes \in ReadCounts(buf_size - lo - in_bytes_total,
                                  Len(input) - rpos) :
        /\ in_bytes > 0
        /\ LET at == lo + in_bytes_total
               filled == range_is_full(in_bytes_total + in_bytes,
                                       buf_size - lo)
               whole == in_bytes = Min(buf_size - lo - in_bytes_total,
                                       Len(input) - rpos)
           IN  /\ buf' = SubSeq(buf, 1, at)
                          \o SubSeq(input, rpos + 1, rpos + in_bytes)
                          \o SubSeq(buf, at + in_bytes + 1, buf_size)
               /\ tag' = SubSeq(tag, 1, at)
                          \o [k \in 1..in_bytes |-> rpos + k]
                          \o SubSeq(tag, at + in_bytes + 1, buf_size)
               /\ rpos' = rpos + in_bytes
               /\ in_bytes_total' = IF filled THEN 0 ELSE in_bytes_total + in_bytes
               /\ m' = IF filled THEN buf_size ELSE m
               /\ pc' = IF filled THEN "take" ELSE pc
               /\ lo' = IF filled THEN 0 ELSE lo
               /\ partial' = IF whole THEN partial
                             ELSE [partial EXCEPT ![run] = TRUE]
    /\ UNCHANGED <<input, buf_size, ascii_only, taken_limit, taken, out,
                   outTag, passed, rounds, cuts, late, run, in1, out1,
                   taken_total>>

\* The limit left at B / 2 when the source has ended.
limit_at_eof_Kept(limit_was, held) == limit_was

\* taken_limit once a fill has ended short with `held` bytes in the buffer
\* (lib.rs 133, 143): all of them may be taken.
limit_at_eof(limit_was, held) == held

\* A read that returns 0 (lib.rs 114-116): fill_buf returns
\* Err(in_bytes_total); buffer_filter sets taken_limit and m (lib.rs
\* 132-135, 142-145, where m - taken is lo) and tests m > 0 (lib.rs 137).
ReadEof ==
    /\ pc \in {"prime", "refill"}
    /\ in_bytes_total < buf_size - lo
    /\ 0 \in ReadCounts(buf_size - lo - in_bytes_total, Len(input) - rpos)
    /\ LET n == in_bytes_total
       IN  /\ taken_limit' = limit_at_eof(taken_limit, lo + n)
           /\ m' = lo + n
           /\ pc' = IF lo + n > 0 THEN "take" ELSE "done"
    /\ lo' = 0
    /\ in_bytes_total' = 0
    /\ UNCHANGED <<input, rpos, buf_size, ascii_only, buf, tag, taken, out,
                   outTag, passed, rounds, cuts, late, run, in1, out1,
                   taken_total, partial>>

\* ------------------------------------------------------------------------
\* One round of the loop of buffer_filter (lib.rs 138-140): the call of
\* take_from_buffer, with its writes through FilterWriter, then
\* copy_within, then the start of the refill.

\* The shift left out: the buffer stays as it was.
copy_within_Skipped(b, from, to) == b

\* b.copy_within(from..to, 0) (lib.rs 139).
copy_within(b, from, to) ==
    SubSeq(b, from + 1, to) \o SubSeq(b, to - from + 1, Len(b))

\* The buffer indices (1-based) of the bytes the spans hand to the backend,
\* in order: w.write_all(&cbuf[i..j]) with w the FilterWriter (lib.rs 99).
RECURSIVE Emitted(_, _, _)
Emitted(ascii, cbuf, spans) ==
    IF spans = <<>> THEN <<>>
    ELSE LET i == Head(spans)[1]
             j == Head(spans)[2]
             kept == FilterWrite(ascii, SubSeq(cbuf, i + 1, j))
         IN  [k \in 1..Len(kept) |-> i + kept[k]]
             \o Emitted(ascii, cbuf, Tail(spans))

\* The buffer indices (1-based) of the bytes the spans hand to the
\* FilterWriter.
SpanBytes(spans) ==
    Flatten([s \in 1..Len(spans) |->
                [k \in 1..(spans[s][2] - spans[s][1]) |-> spans[s][1] + k]])

TakeRound ==
    /\ pc = "take"
    /\ LET r == take_from_buffer(buf, m, taken_limit)
           em == Emitted(ascii_only, buf, r.spans)
           given == SpanBytes(r.spans)
       IN  /\ taken' = r.taken
           /\ taken_total' = taken_total + r.taken
           /\ out' = out \o [k \in 1..Len(em) |-> buf[em[k]]]
           /\ outTag' = outTag \o [k \in 1..Len(em) |-> tag[em[k]]]
           /\ passed' = passed \o [k \in 1..Len(given) |-> buf[given[k]]]
           /\ buf' = copy_within(buf, r.taken, m)
           /\ tag' = copy_within(tag, r.taken, m)
           /\ cuts' = IF r.taken > 0 THEN cuts \cup {tag[r.taken] + 1} ELSE cuts
           /\ late' = IF m = buf_size /\ taken_limit = buf_size \div 2
                      THEN late \cup {tag[k + 1] : k \in (buf_size \div 2)..(m - 1)}
                      ELSE late
           \* fill_buf(&mut buf[m - taken..], r): an empty range is Ok(())
           \* at once (lib.rs 112, 120), and then m = buf_size (lib.rs 141).
           /\ lo' = IF m - r.taken = buf_size THEN 0 ELSE m - r.taken
           /\ pc' = IF m - r.taken = buf_size THEN "take" ELSE "refill"
    /\ rounds' = rounds + 1
    /\ in_bytes_total' = 0
    /\ UNCHANGED <<input, rpos, buf_size, ascii_only, m, taken_limit, run,
                   in1, out1, partial>>

Next == ReadData \/ ReadEof \/ TakeRound

Spec == Init /\ [][Next]_vars

\* The pipeline is one sequential thread over blocking reads and writes:
\* whenever it can take a step, it takes one.  A read that is due happens
\* (WF on both outcomes of Read::read), and a resolver call that is due is
\* made: TakeRound is enabled exactly when pc = "take", so TakeFair is
\* WF_vars(TakeRound) with its enabling condition written out.
TakeFair == <>[](pc = "take") => []<><<TakeRound>>_vars

\* The runs followed to their end: inputs of one token fewer.
FairInputs == UNION { TokSeqs(n) : n \in 0..(MaxTok - 1) }

InitFair ==
    \E inp \in FairInputs, size \in BufSizes, ascii \in BOOLEAN :
        Start(inp, size, ascii)

FairSpec ==
    /\ InitFair
    /\ [][Next]_vars
    /\ WF_vars(ReadData)
    /\ WF_vars(ReadEof)
    /\ TakeFair

\* ------------------------------------------------------------------------
\* The tool run again on its own output: `ascii-filter | ascii-filter`
\* with the same -b and -a (main.rs 15-18, twice).

\* Run 1 has ended; run 2 starts with the output of run 1 as its source.
Rerun ==
    /\ pc = "done"
    /\ run = 1
    /\ run' = 2
    /\ in1' = input
    /\ out1' = out
    /\ input' = out
    /\ rpos' = 0
    /\ buf' = [k \in 1..buf_size |-> 0]
    /\ tag' = [k \in 1..buf_size |-> 0]
    /\ m' = 0
    /\ taken_limit' = buf_size \div 2
    /\ pc' = IF buf_size = 0 THEN "done" ELSE "prime"
    /\ taken' = 0
    /\ lo' = 0
    /\ in_bytes_total' = 0
    /\ out' = <<>>
    /\ outTag' = <<>>
    /\ passed' = <<>>
    /\ rounds' = 0
    /\ cuts' = {}
    /\ late' = {}
    /\ taken_total' = 0
    /\ UNCHANGED <<buf_size, ascii_only, partial>>

\* Text: concatenations of whole characters of 1, 3 and 4 bytes.
TextTokens == { <<65>>, <<228, 160, 160>>, <<240, 160, 160, 160>> }

Texts(n) == { Flatten(ts) : ts \in [1..n -> TextTokens] }

\* The inputs of the double run: texts of up to MaxTok characters
\* behind nothing, behind one invalid byte or behind a stray lead byte
\* (which run 1 drops, so that run 2 sees the text at another offset).
TwiceInputs ==
    { g \o t : g \in { <<>>, <<255>>, <<228>> },
                t \in UNION { Texts(n) : n \in 0..MaxTok } }

InitTwice ==
    \E inp \in TwiceInputs, size \in 4..MaxBuf, ascii \in BOOLEAN :
        Start(inp, size, ascii)

NextTwice == Next \/ Rerun

SpecTwice == InitTwice /\ [][NextTwice]_vars

\* ------------------------------------------------------------------------
\* Runs with -a over inputs that explore the ASCII subset: the bytes on
\* both sides of each bound of lib.rs 32-33 (8|9, 10|11, 31|32, 126|127), an
\* invalid byte and a 3-byte character; and the input of test_filter_writer
\* (lib.rs 186), alone and between two control characters.

AsciiTokens ==
    { <<8>>, <<9>>, <<10>>, <<11>>, <<31>>, <<32>>, <<126>>, <<127>>,
      <<255>>, <<228, 160, 160>> }

\* "abc你好 wor"
TestText == <<97, 98, 99, 228, 189, 160, 229, 165, 189, 32, 119, 111, 114>>

\* The same text between a BEL and a DEL.
TestTextInControls == <<7>> \o TestText \o <<127>>

AsciiInputs ==
    { TestText, TestTextInControls } \cup
    UNION { { Flatten(ts) : ts \in [1..n -> AsciiTokens] } : n \in 0..MaxAsciiTok }

InitAscii ==
    \E inp \in AsciiInputs, size \in BufSizes : Start(inp, size, TRUE)

SpecAscii == InitAscii /\ [][Next]_vars

\* ------------------------------------------------------------------------
\* The tool run twice over the same source, with the same -b and -a
\* (main.rs 15-18, twice): the reads of the two runs return the bytes in
\* chunks of their own.

\* Run 1 has ended; run 2 starts on the same input.
Replay ==
    /\ pc = "done"
    /\ run = 1
    /\ run' = 2
    /\ in1' = input
    /\ out1' = out
    /\ rpos' = 0
    /\ buf' = [k \in 1..buf_size |-> 0]
    /\ tag' = [k \in 1..buf_size |-> 0]
    /\ m' = 0
    /\ taken_limit' = buf_size \div 2
    /\ pc' = IF buf_size = 0 THEN "done" ELSE "prime"
    /\ taken' = 0
    /\ lo' = 0
    /\ in_bytes_total' = 0
    /\ out' = <<>>
    /\ outTag' = <<>>
    /\ passed' = <<>>
    /\ rounds' = 0
    /\ cuts' = {}
    /\ late' = {}
    /\ taken_total' = 0
    /\ UNCHANGED <<input, buf_size, ascii_only, partial>>

\* U+4F60 and 'A'.
NiA == <<228, 189, 160, 65>>

ReplayTokens ==
    { <<65>>, <<255>>, <<228, 160, 160>>, <<240, 160, 160, 160>> }

ReplayInputs ==
    { Flatten(ts) :
        ts \in UNION { [1..n -> ReplayTokens] : n \in 0..(MaxTok - 1) } }
        \cup { NiA }

InitReplay ==
    \E inp \in ReplayInputs, size \in BufSizes, ascii \in BOOLEAN :
        Start(inp, size, ascii)

NextReplay == Next \/ Replay

SpecReplay == InitReplay /\ [][NextReplay]_vars

\* ------------------------------------------------------------------------
\* take_from_buffer called on its own, as tests::test_take_from_buffer
\* calls it (lib.rs 162-167): on a buffer cbuf, with any m <= len(cbuf) and
\* any taken_limit <= m, writing to a FilterWriter over a vector.  buf is
\* cbuf, tag numbers its bytes, out is the vector, taken the result.

\* b"abcdef" (lib.rs 164).
Abcdef == <<97, 98, 99, 100, 101, 102>>

TakeBufs == UNION { TokSeqs(n) : n \in 0..(MaxTok - 1) } \cup { Abcdef }

InitTake ==
    \E cbuf \in TakeBufs, ascii \in BOOLEAN :
      \E mm \in 0..Len(cbuf) :
        \E limit \in 0..mm :
            /\ input = <<>>
            /\ rpos = 0
            /\ buf_size = Len(cbuf)
            /\ ascii_only = ascii
            /\ buf = cbuf
            /\ tag = [k \in 1..Len(cbuf) |-> k]
            /\ m = mm
            /\ taken_limit = limit
            /\ pc = "call"
            /\ taken = 0
            /\ lo = 0
            /\ in_bytes_total = 0
            /\ out = <<>>
            /\ outTag = <<>>
            /\ passed = <<>>
            /\ rounds = 0
            /\ cuts = {}
            /\ late = {}
            /\ run = 1
            /\ in1 = <<>>
            /\ out1 = <<>>
            /\ taken_total = 0
            /\ partial = [r \in 1..2 |-> FALSE]

\* The call and its return (lib.rs 72-104).
TakeCall ==
    /\ pc = "call"
    /\ LET r == take_from_buffer(buf, m, taken_limit)
           em == Emitted(ascii_only, buf, r.spans)
           given == SpanBytes(r.spans)
       IN  /\ taken' = r.taken
           /\ taken_total' = r.taken
           /\ out' = [k \in 1..Len(em) |-> buf[em[k]]]
           /\ outTag' = [k \in 1..Len(em) |-> tag[em[k]]]
           /\ passed' = [k \in 1..Len(given) |-> buf[given[k]]]
    /\ pc' = "returned"
    /\ UNCHANGED <<input, rpos, buf_size, ascii_only, buf, tag, m,
                   taken_limit, lo, in_bytes_total, rounds, cuts, late, run,
                   in1, out1, partial>>

NextTake == TakeCall

SpecTake == InitTake /\ [][NextTake]_vars

\* ------------------------------------------------------------------------
\* fill_buf called on a whole buffer, as tests::test_fill_buf calls it
\* (lib.rs 169-180) and as buffer_filter calls it first (lib.rs 129-136):
\* the range is buf[0..], of length buf_size, which may be 0.  The outcome
\* shows in m and taken_limit: Ok(()) leaves m = buf_size and taken_limit
\* as it was, Err(n) leaves m = taken_limit = n.

\* "hel" and "hell" (lib.rs 172, 177).
Hel == <<104, 101, 108>>

Hell == <<104, 101, 108, 108>>

FillSources == FairInputs \cup { Hel, Hell }

FillSizes == 0..MaxBuf

InitFill ==
    \E inp \in FillSources, size \in FillSizes : Start(inp, size, FALSE)

NextFill == ReadData \/ ReadEof

SpecFill == InitFill /\ [][NextFill]_vars

\* ------------------------------------------------------------------------
\* C1: whatever the input, the buffer size and the mode, the bytes the sink
\* has received so far are well-formed UTF-8, in every state of a run:
\* after each round and when the run has ended.
C1_OutputWellFormed == from_utf8_is_ok(out)

\* A finished run of several rounds that dropped some bytes and wrote a
\* multi-byte character.
C1_Witness ==
    /\ pc = "done"
    /\ rounds >= 2
    /\ Len(out) < Len(input)
    /\ \E k \in 1..Len(out) : out[k] >= 128

\* ------------------------------------------------------------------------
\* Characters of the input, for the statements below.

\* The input positions whose bytes the sink has received.
WrittenTags == { outTag[k] : k \in 1..Len(outTag) }

\* The positions p..p+l-1 of the character of length l that starts at p.
CharTags(p, l) == p..(p + l - 1)

\* A round stopped taking strictly inside the character of length l at p:
\* some of its bytes were consumed in one round and the others were not.
SplitByRound(p, l) == \E c \in cuts : p < c /\ c < p + l

\* The valid multi-byte character that starts at input position p, if any,
\* is never split by a round, is written whole or not at all, and in
\* default mode is written by the time the run has ended.
KeptWhole(p) ==
    LET l == Utf8CharLen(input, p)
    IN  l > 1 =>
          /\ ~SplitByRound(p, l)
          /\ \/ CharTags(p, l) \cap WrittenTags = {}
             \/ CharTags(p, l) \subseteq WrittenTags
          /\ (pc = "done" /\ ~ascii_only) => CharTags(p, l) \subseteq WrittenTags

\* C2 as stated: for any buffer size, a valid multi-byte character whose
\* first byte sat at a buffer index >= buf_size / 2 when a completely
\* filled round began is never split, and in default mode it is written
\* whole.
C2_AnyBufferSize == \A p \in late : KeptWhole(p)

\* C2 as amended: the same, for buffer sizes of at least 7, whose
\* lookahead half buf_size - buf_size / 2 holds a whole 4-byte character.
C2_NeverSplit == buf_size >= 7 => \A p \in late : KeptWhole(p)

\* A run with a 7-byte buffer has ended; a 4-byte character began in the
\* back half of a completely filled round, and the sink has received it.
C2_Witness ==
    /\ pc = "done"
    /\ buf_size = 7
    /\ ~ascii_only
    /\ \E p \in late : Utf8CharLen(input, p) = 4 /\ p \in WrittenTags

\* ------------------------------------------------------------------------
\* C3 as stated: with a buffer size of at least 4, filtering the output of
\* a run again, with the same buffer size and mode, gives that output
\* again.
C3_IdempotentFrom4 ==
    (run = 2 /\ pc = "done" /\ buf_size >= 4) => out = out1

\* C3 as amended: the same for buffer sizes of at least 7.
C3_Idempotent ==
    (run = 2 /\ pc = "done" /\ buf_size >= 7) => out = out1

\* Run 2 has ended after several rounds, with a 7-byte buffer; run 1 had
\* dropped bytes of its input and had written a multi-byte character.
C3_Witness ==
    /\ run = 2
    /\ pc = "done"
    /\ buf_size = 7
    /\ rounds >= 2
    /\ Len(out1) < Len(in1)
    /\ \E k \in 1..Len(out1) : out1[k] >= 128

\* ------------------------------------------------------------------------
\* The safe subset as C4 states it.
SafeByte(b) == b = 9 \/ b = 10 \/ (b >= 32 /\ b <= 126)

\* C4: in ASCII-only mode every byte the sink has received is 0x09, 0x0A
\* or in 0x20..0x7E; the output is exactly the bytes of that set among the
\* bytes handed to the filter, in their order, so that a character of more
\* than one byte (all of whose bytes are >= 0x80) contributes nothing; and
\* "abc你好 wor" gives "abc wor".
C4_AsciiOnly ==
    ascii_only =>
        /\ \A k \in 1..Len(out) : SafeByte(out[k])
        /\ out = SelectSeq(passed, SafeByte)
        /\ (input \in { TestText, TestTextInControls } /\ pc = "done")
              => out = <<97, 98, 99, 32, 119, 111, 114>>

\* A run with -a has ended; the filter was handed a multi-byte character
\* and a single-byte character outside the set, and wrote something.
C4_Witness ==
    /\ ascii_only
    /\ pc = "done"
    /\ \E k \in 1..Len(passed) : passed[k] >= 128
    /\ \E k \in 1..Len(passed) : passed[k] < 128 /\ ~SafeByte(passed[k])
    /\ Len(out) > 0

\* ------------------------------------------------------------------------
\* C5: the pipeline reaches Finished: every call of take_from_buffer takes
\* at least one byte, the loop ends, and when it has ended m = 0, the
\* source has been read to its end and no byte is left in the buffer.
C5_Terminates ==
    /\ <>(pc = "done")
    /\ [][rounds' = rounds + 1 => (m > 0 /\ taken' >= 1)]_vars
    /\ [](pc = "done" => (m = 0 /\ rpos = Len(input) /\ lo = 0))

\* A run of at least three rounds has ended.
C5_Witness == pc = "done" /\ rounds >= 3 /\ buf_size >= 2

\* ------------------------------------------------------------------------
\* C6: the bytes the sink has received are a subsequence of the input, in
\* order: the k-th written byte is the input byte at position outTag[k],
\* and these positions increase strictly, so that each written byte has
\* its own input position and no input byte is written twice, in one
\* round or across rounds.
C6_Subsequence ==
    /\ Len(outTag) = Len(out)
    /\ \A k \in 1..Len(out) :
          /\ outTag[k] \in 1..Len(input)
          /\ input[outTag[k]] = out[k]
    /\ \A k \in 1..(Len(out) - 1) : outTag[k] < outTag[k + 1]

\* A run of several rounds has ended; it wrote bytes on both sides of a
\* byte that it dropped, and the last round wrote something.
C6_Witness ==
    /\ pc = "done"
    /\ rounds >= 3
    /\ \E k \in 1..(Len(outTag) - 1) : outTag[k + 1] > outTag[k] + 1
    /\ Len(outTag) > 0
    /\ outTag[Len(outTag)] = Len(input)

\* ------------------------------------------------------------------------
\* Input position q lies inside a complete valid character of the input.
InValidChar(q) ==
    \E p \in 1..q : Utf8CharLen(input, p) > q - p

IsAscii(b) == b < 128

\* C7: in default mode a byte that lies inside no complete valid character
\* of the input is never written; when the run has ended every byte
\* 0x00..0x7F of the input has been written; an input made only of such
\* bytes and of bytes inside no valid character gives exactly its ASCII
\* bytes in order, and FF FE 'h' 'i' gives "hi"; for every buffer size.
C7_DefaultMode ==
    ~ascii_only =>
        /\ \A k \in 1..Len(outTag) : InValidChar(outTag[k])
        /\ pc = "done" =>
              /\ \A q \in 1..Len(input) :
                    IsAscii(input[q]) => q \in WrittenTags
              /\ (\A q \in 1..Len(input) :
                     IsAscii(input[q]) \/ ~InValidChar(q))
                    => out = SelectSeq(input, IsAscii)
              /\ input = InvalidThenHi => out = <<104, 105>>

\* A default-mode run has ended on an input of ASCII bytes and bytes that
\* belong to no character, some of each, the ASCII bytes written.
C7_Witness ==
    /\ ~ascii_only
    /\ pc = "done"
    /\ \E q \in 1..Len(input) : IsAscii(input[q])
    /\ \E q \in 1..Len(input) : ~InValidChar(q)
    /\ \A q \in 1..Len(input) : IsAscii(input[q]) \/ ~InValidChar(q)
    /\ out = SelectSeq(input, IsAscii)
    /\ rounds >= 2

\* ------------------------------------------------------------------------
\* The valid characters of s from position p on, concatenated: a decoder
\* that skips every byte at which no character starts.
RECURSIVE ValidChars(_, _)
ValidChars(s, p) ==
    IF p > Len(s) THEN <<>>
    ELSE LET l == Utf8CharLen(s, p)
         IN  IF l > 0 THEN SubSeq(s, p, p + l - 1) \o ValidChars(s, p + l)
             ELSE ValidChars(s, p + 1)

ShortInput == Len(input) < buf_size

\* C8: when the whole input is shorter than the buffer, priming ends short
\* with m = taken_limit = the input length; one round takes the whole
\* buffer (there is no round at all when the input is empty) and leaves
\* nothing behind; the run then ends; and in default mode the output is
\* the concatenation of the valid characters of the input, a multi-byte
\* character that ends at the end of the stream included.
C8_ShortInputOneRound ==
    /\ [](ShortInput =>
            /\ (pc = "take" /\ rounds = 0) =>
                  (m = Len(input) /\ taken_limit = Len(input) /\ m > 0)
            /\ rounds <= 1
            /\ rounds = 1 =>
                  (taken = Len(input) /\ lo = 0 /\ pc \in {"refill", "done"})
            /\ pc = "done" => rounds = (IF Len(input) = 0 THEN 0 ELSE 1)
            /\ (pc = "done" /\ ~ascii_only) => out = ValidChars(input, 1))
    /\ ShortInput ~> (pc = "done")

\* A default-mode run on an input shorter than its buffer has ended after
\* one round; the input ends with a 3-byte character, which was written,
\* and holds a byte that was dropped.
C8_Witness ==
    /\ ShortInput
    /\ ~ascii_only
    /\ pc = "done"
    /\ rounds = 1
    /\ Len(input) >= 4
    /\ Utf8CharLen(input, Len(input) - 2) = 3
    /\ Len(input) \in WrittenTags
    /\ Len(out) < Len(input)

\* ------------------------------------------------------------------------
\* Other contents for the n bytes of the buffer from index m on.
OtherTails(n) == { [k \in 1..n |-> b] : b \in {0, 65, 160, 255} }

\* C9: a call take_from_buffer(cbuf, m, taken_limit, w) with
\* 0 <= taken_limit <= m <= len(cbuf) returns taken with
\* taken_limit <= taken <= m; the bytes written are bytes of cbuf at
\* indices below taken, in order; the same call on a buffer that differs
\* from index m on returns the same count and writes the same bytes; and
\* take_from_buffer(b"abcdef", 5, 2) returns 3 and writes "abc".
C9_TakeBounds ==
    pc = "returned" =>
        /\ taken_limit <= taken
        /\ taken <= m
        /\ Len(out) = Len(outTag)
        /\ \A k \in 1..Len(outTag) :
              /\ outTag[k] \in 1..taken
              /\ out[k] = buf[outTag[k]]
              /\ k > 1 => outTag[k - 1] < outTag[k]
        /\ \A tail \in OtherTails(Len(buf) - m) :
              LET other == SubSeq(buf, 1, m) \o tail
                  r == take_from_buffer(other, m, taken_limit)
                  em == Emitted(ascii_only, other, r.spans)
              IN  /\ r.taken = taken
                  /\ em = outTag
                  /\ [k \in 1..Len(em) |-> other[em[k]]] = out
        /\ (buf = Abcdef /\ m = 5 /\ taken_limit = 2) =>
              (taken = 3 /\ out = <<97, 98, 99>>)

\* A call has returned with 0 < taken_limit < taken < m < len(cbuf), and
\* has written the bytes it took.
C9_Witness ==
    /\ pc = "returned"
    /\ 0 < taken_limit
    /\ taken_limit < taken
    /\ taken < m
    /\ m < Len(buf)
    /\ Len(out) = taken

\* ------------------------------------------------------------------------
\* C10: two runs over the same input, with the same buffer size and mode,
\* write the same output however the reads of each run split the input;
\* with a 4-byte buffer, U+4F60 and 'A' come out whole in default mode,
\* whether the four bytes arrive in one read or in several.
C10_ChunkingIndependent ==
    /\ (run = 2 /\ pc = "done") => out = out1
    /\ (pc = "done" /\ input = NiA /\ buf_size = 4 /\ ~ascii_only)
          => out = NiA

\* Both runs have ended, on an input with a multi-byte character and
\* after several rounds; every read of run 1 returned all that was asked
\* for and there, and some read of run 2 returned less.
C10_Witness ==
    /\ run = 2
    /\ pc = "done"
    /\ ~partial[1]
    /\ partial[2]
    /\ rounds >= 2
    /\ \E k \in 1..Len(out) : out[k] >= 128
    /\ Len(out) < Len(input)

\* ------------------------------------------------------------------------
\* The fill attempt on buf[0..] is over.
FillOver == pc # "prime"

\* What the attempt returned.
FillOk == FillOver /\ m = buf_size /\ taken_limit = buf_size \div 2

FillErr(n) == FillOver /\ m = n /\ taken_limit = n /\ n < buf_size

\* C11: fill_buf on a range of length L (here buf_size) returns Ok exactly
\* when L bytes were obtained, and otherwise Err(n) with n < L the number
\* of bytes obtained before the read that returned 0; these bytes are in
\* the range, in order; the read that returns 0 ends the attempt; an
\* empty range gives Ok without a read; and "hel" into 5 bytes gives
\* Err(3), "hell" into 3 bytes gives Ok.
C11_FillBuf ==
    /\ [](FillOver =>
            /\ FillOk <=> rpos = buf_size
            /\ ~FillOk => FillErr(rpos)
            /\ SubSeq(buf, 1, rpos) = SubSeq(input, 1, rpos)
            /\ (input = Hel /\ buf_size = 5) => FillErr(3)
            /\ (input = Hell /\ buf_size = 3) => (FillOk /\ rpos = 3))
    /\ [](buf_size = 0 => (FillOk /\ rpos = 0))
    /\ [][(pc = "prime" /\ rpos' = rpos) => FillOver']_vars
    /\ [][(pc = "prime" /\ FillOver') =>
            \/ rpos' = rpos /\ rpos < buf_size
            \/ rpos' = buf_size]_vars
    /\ [][FillOver => rpos' = rpos]_vars

\* An attempt has ended short after two reads that brought bytes, on a
\* source that holds a multi-byte character.
C11_Witness ==
    /\ FillOver
    /\ \E n \in 2..(buf_size - 1) : FillErr(n)
    /\ partial[1]
    /\ \E k \in 1..Len(input) : input[k] >= 128

\* ------------------------------------------------------------------------
\* The tables of the call on the buffer and m of this state.
Tabs == BuildTables(buf, m)

\* The cost of the span [i, j) of the buffer (lib.rs 84), from the bytes.
SpanCost(i, j) == IF from_utf8_is_ok(SubSeq(buf, i + 1, j)) THEN 0 ELSE j - i

\* The total that the end index j gives the start index i (lib.rs 86),
\* with the costs of the table cost.
Total(cost, i, j) == SpanCost(i, j) + cost[j]

\* The end indices that give i the least total.
BestEnds(cost, i) ==
    LET total == [j \in (i + 1)..m |-> Total(cost, i, j)]
    IN  { j \in (i + 1)..m : \A k \in (i + 1)..m : total[j] <= total[k] }

Largest(S) == CHOOSE x \in S : \A y \in S : y <= x

Smallest(S) == CHOOSE x \in S : \A y \in S : x <= y

\* C12 as stated: when several end indices give a start index i the same
\* least total, backtrack[i] is the largest of them, the one scanned last.
C12_LaterWins ==
    pc = "returned" =>
        LET tabs == Tabs
        IN  \A i \in 0..(m - 1) :
              tabs.backtrack[i] = Largest(BestEnds(tabs.cost, i))

\* C12 as amended: backtrack[i] is the smallest of them, the one scanned
\* first, since only a strictly smaller total replaces it.
C12_EarlierWins ==
    pc = "returned" =>
        LET tabs == Tabs
        IN  \A i \in 0..(m - 1) :
              tabs.backtrack[i] = Smallest(BestEnds(tabs.cost, i))

\* A call has returned on a buffer in which three end indices give index 0
\* the same least total, and backtrack[0] is the first of them.
C12_Witness ==
    /\ pc = "returned"
    /\ m >= 3
    /\ Cardinality(BestEnds(Tabs.cost, 0)) >= 3
    /\ Tabs.backtrack[0] = Smallest(BestEnds(Tabs.cost, 0))
    /\ Tabs.backtrack[0] < Largest(BestEnds(Tabs.cost, 0))

\* ------------------------------------------------------------------------
\* The summed lengths of the invalid spans of the partition of the buffer
\* from index a to m whose inner boundaries are the set cutset.
RECURSIVE PartitionCost(_, _)
PartitionCost(a, cutset) ==
    IF a >= m THEN 0
    ELSE LET b == Smallest({ c \in cutset \cup {m} : c > a })
         IN  SpanCost(a, b) + PartitionCost(b, cutset)

\* The least of these over all partitions of buffer[i..m] into
\* consecutive non-empty spans.
MinPartitionCost(i) ==
    Smallest({ PartitionCost(i, cutset) :
                 cutset \in SUBSET ((i + 1)..(m - 1)) })

\* The cost of the partition that following backtrack from index a gives.
RECURSIVE ChainCost(_, _)
ChainCost(backtrack, a) ==
    IF a >= m THEN 0
    ELSE SpanCost(a, backtrack[a]) + ChainCost(backtrack, backtrack[a])

\* C13: after the table-building loop cost[m] = 0; for every i in 0..m
\* cost[i] is the least, over all partitions of buffer[i..m] into
\* consecutive non-empty spans, of the summed lengths of the spans that
\* are not valid UTF-8; and following backtrack from i goes forward to m
\* along a partition of that cost.
C13_CostIsMinimal ==
    pc = "returned" =>
        LET tabs == Tabs
        IN  /\ tabs.cost[m] = 0
            /\ \A i \in 0..(m - 1) :
                  i < tabs.backtrack[i] /\ tabs.backtrack[i] <= m
            /\ \A i \in 0..m : tabs.cost[i] = MinPartitionCost(i)
            /\ \A i \in 0..m : ChainCost(tabs.backtrack, i) = tabs.cost[i]

\* A call has returned on at least five bytes of which some, not all, are
\* in invalid spans of the cheapest partition, which keeps a multi-byte
\* character.
C13_Witness ==
    /\ pc = "returned"
    /\ m >= 5
    /\ Tabs.cost[0] > 0
    /\ Tabs.cost[0] < m - 2
    /\ \E i \in 0..(m - 1) :
          Tabs.backtrack[i] > i + 1 /\ SpanCost(i, Tabs.backtrack[i]) = 0

\* ------------------------------------------------------------------------
\* The indices on the backtrack chain from index a, up to m.
RECURSIVE ChainSet(_, _)
ChainSet(backtrack, a) ==
    IF a >= m THEN {m}
    ELSE {a} \cup ChainSet(backtrack, backtrack[a])

\* C14: the walk starts no span at an index above taken_limit and does
\* start one at taken_limit: the result is the first index on the
\* backtrack chain from 0 that is above taken_limit, or m when the chain
\* gets there first; and when the first m bytes are all single-byte
\* characters the result is min(taken_limit + 1, m) and the bytes written
\* to w are cbuf[0..taken].
C14_WalkStopsPastLimit ==
    pc = "returned" =>
        LET backtrack == Tabs.backtrack
            chain == ChainSet(backtrack, 0)
        IN  /\ taken = Smallest({ c \in chain : c > taken_limit \/ c = m })
            /\ \A c \in chain : c < taken => c <= taken_limit
            /\ (taken_limit \in chain /\ taken_limit < m)
                  => taken = backtrack[taken_limit]
            /\ (\A k \in 1..m : IsAscii(buf[k])) =>
                  /\ taken = Min(taken_limit + 1, m)
                  /\ passed = SubSeq(buf, 1, taken)

\* A call has returned that started a span at taken_limit, after others,
\* and stopped short of m; and one on single-byte characters only.
C14_Witness ==
    /\ pc = "returned"
    /\ taken_limit >= 2
    /\ taken_limit < m
    /\ taken < m
    /\ taken_limit \in ChainSet(Tabs.backtrack, 0)
    /\ taken = Tabs.backtrack[taken_limit]
    /\ \A k \in 1..m : IsAscii(buf[k])

\* ------------------------------------------------------------------------
\* The fill that has just ended was complete: its last read brought bytes.
\* A fill that ends short ends with a read that returns 0.
FillEndsComplete == pc \in {"prime", "refill"} /\ pc' = "take" /\ rpos' > rpos

FillEndsShort == pc \in {"prime", "refill"} /\ pc' = "take" /\ rpos' = rpos

\* C15: whenever the pipeline calls take_from_buffer, 0 < m <= buf_size
\* and 0 <= taken_limit <= m; after a complete fill m = buf_size and
\* taken_limit = buf_size / 2, and after a short fill taken_limit = m =
\* the bytes carried over plus the bytes newly read.
C15_ResolverArguments ==
    /\ [](pc = "take" =>
            /\ 0 < m /\ m <= buf_size
            /\ 0 <= taken_limit /\ taken_limit <= m
            /\ \/ m = buf_size /\ taken_limit = buf_size \div 2
               \/ taken_limit = m)
    /\ [][FillEndsComplete =>
            (m' = buf_size /\ taken_limit' = buf_size \div 2)]_vars
    /\ [][FillEndsShort =>
            (m' = lo + in_bytes_total /\ taken_limit' = m')]_vars

\* The resolver is about to be called again, after a short fill that
\* left some bytes, fewer than half the buffer.
C15_Witness ==
    /\ pc = "take"
    /\ rounds >= 1
    /\ taken_limit = m
    /\ m < buf_size \div 2

\* ------------------------------------------------------------------------
\* The resolver is about to be called after a fill that ended short: a
\* short fill leaves m < buf_size, a complete one m = buf_size.
CallAfterShortFill == pc = "take" /\ m < buf_size

\* The round after a short fill has been made; its refill is due.
RefillAfterShortRound == pc = "refill" /\ m < buf_size

\* C16: once a fill has ended short, the next call of take_from_buffer
\* takes the whole buffer (taken = m), the fill after it finds nothing
\* and the pipeline is Finished: no second round follows a short fill.
C16_OneRoundAfterShortFill ==
    /\ [][FillEndsShort => CallAfterShortFill']_vars
    /\ [][FillEndsComplete => ~CallAfterShortFill']_vars
    /\ [][CallAfterShortFill =>
            (taken' = m /\ lo' = 0 /\ RefillAfterShortRound')]_vars
    /\ [][RefillAfterShortRound => (pc' = "done" /\ rounds' = rounds)]_vars
    /\ CallAfterShortFill ~> (pc = "done")

\* A run of several rounds has ended whose last round, after a short
\* fill, took several bytes; some bytes were dropped.
C16_Witness ==
    /\ pc = "done"
    /\ rounds >= 2
    /\ taken >= 2
    /\ taken < buf_size
    /\ Len(out) < Len(input)
    /\ Len(out) > 0

\* ------------------------------------------------------------------------
\* C17: when a round begins, the first m bytes of the buffer are the
\* stretch of the input that starts right after the bytes taken in all
\* earlier rounds, and the source has been read exactly to the end of
\* that stretch; the shift keeps bytes [taken, m) in order at the front
\* and the refill puts the next unread input bytes right behind them, so
\* that no input byte is skipped or comes twice.
C17_BufferIsInputWindow ==
    /\ [](pc = "take" =>
            /\ rpos = taken_total + m
            /\ SubSeq(buf, 1, m) = SubSeq(input, taken_total + 1, rpos))
    /\ [][rounds' = rounds + 1 =>
            /\ lo' = m - taken'
            /\ SubSeq(buf', 1, lo') = SubSeq(buf, taken' + 1, m)]_vars
    /\ [](pc = "refill" =>
            SubSeq(buf, 1, lo + in_bytes_total)
                = SubSeq(input, taken_total + 1, rpos))

\* A round after the first is about to begin, on bytes carried over from
\* a full round before it and bytes read since.
C17_Witness ==
    /\ pc = "take"
    /\ rounds >= 1
    /\ taken < buf_size
    /\ m > buf_size - taken
    /\ taken_total >= 2

\* ------------------------------------------------------------------------
\* The span [i, j) of the first m bytes is the encoding of one character.
OneCharacter(i, j) == Utf8CharLen(SubSeq(buf, 1, m), i + 1) = j - i

\* C18: every span [i, backtrack[i]) the walk follows is the encoding of
\* exactly one valid character, of 1 to 4 bytes, which it writes, or
\* exactly one byte, which it discards: no span of two or more bytes is
\* discarded and no span of two characters is written; hence
\* taken <= taken_limit + 4.
C18_SpansAreSingle ==
    pc = "returned" =>
        LET backtrack == Tabs.backtrack
            chain == ChainSet(backtrack, 0)
        IN  /\ \A i \in chain :
                  i < taken =>
                    LET j == backtrack[i]
                    IN  IF SpanCost(i, j) = 0
                        THEN OneCharacter(i, j) /\ j - i \in 1..4
                        ELSE j = i + 1
            /\ Len(passed) + Cardinality({ i \in chain :
                    i < taken /\ SpanCost(i, backtrack[i]) > 0 }) = taken
            /\ taken <= taken_limit + 4

\* A call has returned that discarded one byte, then started a 4-byte
\* character at taken_limit and wrote it: taken = taken_limit + 4.
C18_Witness ==
    /\ pc = "returned"
    /\ taken = taken_limit + 4
    /\ taken_limit >= 1
    /\ Len(passed) = 4
    /\ taken_limit < m
    /\ OneCharacter(taken_limit, taken)

\* ------------------------------------------------------------------------
\* The input positions at which a valid character starts.
CharStarts == { p \in 1..Len(input) : Utf8CharLen(input, p) > 0 }

\* C19: with a buffer of at least 7 bytes (a lookahead half of at least
\* 4), the default-mode output of a finished run is the input without
\* the bytes that belong to no complete valid character of the input,
\* and no round stops inside a valid character: none is lost where the
\* buffer is refilled.
C19_LosslessFrom7 ==
    (buf_size >= 7 /\ ~ascii_only) =>
        /\ \A p \in CharStarts : ~SplitByRound(p, Utf8CharLen(input, p))
        /\ pc = "done" =>
              /\ WrittenTags = { q \in 1..Len(input) : InValidChar(q) }
              /\ out = ValidChars(input, 1)

\* A default-mode run with a 7-byte buffer has ended after dropping
\* bytes; a 4-byte character of which the first fill held only a part
\* has been written.
C19_Witness ==
    /\ pc = "done"
    /\ buf_size = 7
    /\ ~ascii_only
    /\ Len(out) < Len(input)
    /\ \E p \in CharStarts :
          /\ Utf8CharLen(input, p) = 4
          /\ p <= buf_size
          /\ p + 3 > buf_size
          /\ CharTags(p, 4) \subseteq WrittenTags

\* ------------------------------------------------------------------------
\* The pairs (i, j) with 0 <= i < j <= m.
Pairs == { ij \in (0..m) \X (0..m) : ij[1] < ij[2] }

\* C20: for every pair 0 <= i < j <= m the flattened index
\* (m + 1) * i + j - (i + 2) * (i + 1) / 2 is computed without going
\* below 0 (the subtrahend is at most the minuend), lies below
\* m * (m + 1) / 2, which is the length of the table, and differs for
\* different pairs; so the entry a lookup reads is the validity of the
\* span of that very pair.
C20_FlatIndex ==
    /\ VuLen(m) = (m * (m + 1)) \div 2
    /\ \A ij \in Pairs :
          LET i == ij[1]
              j == ij[2]
          IN  /\ ((i + 2) * (i + 1)) \div 2 <= (m + 1) * i + j
              /\ VuIndex(m, i, j) >= 0
              /\ VuIndex(m, i, j) < VuLen(m)
    /\ \A ij \in Pairs, kl \in Pairs :
          VuIndex(m, ij[1], ij[2]) = VuIndex(m, kl[1], kl[2]) => ij = kl
    /\ pc = "returned" =>
          LET valid_utf8 == Tabs.valid_utf8
          IN  \A ij \in Pairs :
                valid_utf8[VuIndex(m, ij[1], ij[2])]
                    <=> from_utf8_is_ok(SubSeq(buf, ij[1] + 1, ij[2]))

\* A call on at least six bytes has returned whose walk looked up, at an
\* index i >= 2, a span of several bytes that is valid.
C20_Witness ==
    /\ pc = "returned"
    /\ m >= 6
    /\ \E i \in 2..(m - 1) :
          /\ i \in ChainSet(Tabs.backtrack, 0)
          /\ i < taken
          /\ Tabs.backtrack[i] >= i + 3
          /\ Tabs.valid_utf8[VuIndex(m, i, Tabs.backtrack[i])]

====
